---- MODULE Spec2Model ----
(***************************************************************************)
(* Model of tournament.py, a Swiss-system tournament kept in a PostgreSQL  *)
(* store.  The store is the pair of tables (player, match) together with   *)
(* the serial sequence that numbers the players.  Every function of the    *)
(* module runs one SQL statement inside one transaction, so each call is   *)
(* one atomic step on the store; swissPairings reads the standings first   *)
(* and builds its pairs from that local list afterwards.                   *)
(***************************************************************************)
EXTENDS Bags, FiniteSets, Integers, Sequences, TLC

\* ---------------------------------------------------------------- bounds
MaxPlayers == 4
MaxMatches == 2
ConcMaxPlayers == 2
ConcMaxMatches == 1

\* ------------------------------------------------------------ input sets
Names == {"A"}
Ids == 1..MaxPlayers
ConcIds == 1..ConcMaxPlayers

\* first value handed out by the serial sequence of player.id
FirstId == 1

VARIABLES
    player,          \* table player: set of rows [id, name]
    match,           \* table match: bag of rows [winner, loser]
    player_id_seq,   \* next value of the sequence behind player.id
    call,            \* last call completed by the caller and what it got back
    pc,              \* position of a swissPairings call split by another caller
    standings        \* local list of swissPairings between its query and return

vars == <<player, match, player_id_seq, call, pc, standings>>

\* ------------------------------------------------------------ SQL helpers
PlayerIds(P) == {r.id : r \in P}

\* the rows of bag B that are in set S, as a bag (FROM B WHERE ...)
SelectWhere(B, S) == [e \in S \cap DOMAIN B |-> B[e]]

\* (SELECT COUNT(*) FROM match WHERE match.winner = player.id)
Wins(p, M) ==
    BagCardinality(SelectWhere(M, {m \in DOMAIN M : m.winner = p}))

MatchesDoubleCount(p, M) ==
    BagCardinality(SelectWhere(M, {m \in DOMAIN M : m.winner = p}))
        + BagCardinality(SelectWhere(M, {m \in DOMAIN M : m.loser = p}))

\* (SELECT COUNT(*) FROM match WHERE match.loser = player.id
\*                                OR match.winner = player.id)
Matches(p, M) ==
    BagCardinality(SelectWhere(M, {m \in DOMAIN M : m.loser = p \/ m.winner = p}))

\* the select list: (id, name, wins, matches) for every row of player
StandingRows(P, M) == {<<r.id, r.name, Wins(r.id, M), Matches(r.id, M)>> : r \in P}

RECURSIVE OrderByWinsAsc(_)
OrderByWinsAsc(R) ==
    IF R = {} THEN {<<>>}
    ELSE UNION {{<<r>> \o t : t \in OrderByWinsAsc(R \ {r})} :
                r \in {x \in R : \A y \in R : x[3] <= y[3]}}

\* ORDER BY wins DESC: every arrangement of the rows in which the wins never
\* increase; rows with equal wins come in whatever order the store yields
RECURSIVE OrderByWinsDesc(_)
OrderByWinsDesc(R) ==
    IF R = {} THEN {<<>>}
    ELSE UNION {{<<r>> \o t : t \in OrderByWinsDesc(R \ {r})} :
                r \in {x \in R : \A y \in R : x[3] >= y[3]}}

\* every list cur.fetchall() can return for the standings query
PlayerStandingsResults(P, M) == OrderByWinsDesc(StandingRows(P, M))

\* SELECT count(*) from player
CountResult(P) == Cardinality(P)

\* standings[::2] and standings[1::2]
EvenSlice(s) == [k \in 1..((Len(s) + 1) \div 2) |-> s[2 * k - 1]]
OddSlice(s) == [k \in 1..(Len(s) \div 2) |-> s[2 * k]]

Min(a, b) == IF a <= b THEN a ELSE b

PairUpOverlapping(s) ==
    [k \in 1..(Len(s) \div 2) |-> <<s[k][1], s[k][2], s[k + 1][1], s[k + 1][2]>>]

PairUpWithBye(s) ==
    [k \in 1..((Len(s) + 1) \div 2) |->
        IF 2 * k <= Len(s)
        THEN <<s[2 * k - 1][1], s[2 * k - 1][2], s[2 * k][1], s[2 * k][2]>>
        ELSE <<s[2 * k - 1][1], s[2 * k - 1][2], s[2 * k - 1][1], s[2 * k - 1][2]>>]

\* for p1, p2 in zip(standings[::2], standings[1::2]):
\*     matches.append((p1[0], p1[1], p2[0], p2[1]))
PairUp(s) ==
    LET a == EvenSlice(s)
        b == OddSlice(s)
    IN  [k \in 1..Min(Len(a), Len(b)) |-> <<a[k][1], a[k][2], b[k][1], b[k][2]>>]

\* the store accepts a match row only if both ids are rows of player
ForeignKeyOk(w, l, P) == w \in PlayerIds(P) /\ l \in PlayerIds(P)

\* ------------------------------------------------------- call bookkeeping
NoCall ==
    [op |-> "none", name |-> "", winner |-> 0, loser |-> 0,
     outcome |-> "None", int |-> 0, rows |-> <<>>, pairs |-> <<>>]

Returned(op, outcome) == [NoCall EXCEPT !.op = op, !.outcome = outcome]

\* ------------------------------------------------------- store statements
TruncateMatchAndPlayers ==
    /\ match' = EmptyBag
    /\ player' = {}
    /\ UNCHANGED player_id_seq

\* TRUNCATE match RESTART IDENTITY
TruncateMatch ==
    /\ match' = EmptyBag
    /\ UNCHANGED <<player, player_id_seq>>

TruncatePlayerNoCascade ==
    /\ player' = {}
    /\ player_id_seq' = FirstId
    /\ UNCHANGED match

TruncatePlayerKeepIdentity ==
    /\ player' = {}
    /\ match' = EmptyBag
    /\ UNCHANGED player_id_seq

\* TRUNCATE player RESTART IDENTITY CASCADE
TruncatePlayer ==
    /\ player' = {}
    /\ match' = EmptyBag
    /\ player_id_seq' = FirstId

InsertPlayerNoAdvance(name) ==
    /\ player' = player \cup {[id |-> player_id_seq, name |-> name]}
    /\ UNCHANGED <<player_id_seq, match>>

\* INSERT INTO player (name) VALUES (%s)
InsertPlayer(name) ==
    /\ player' = player \cup {[id |-> player_id_seq, name |-> name]}
    /\ player_id_seq' = player_id_seq + 1
    /\ UNCHANGED match

InsertMatchSwapped(w, l) ==
    /\ match' = match (+) SetToBag({[winner |-> l, loser |-> w]})
    /\ UNCHANGED <<player, player_id_seq>>

\* INSERT INTO match (winner, loser) VALUES (%s, %s)
InsertMatch(w, l) ==
    /\ match' = match (+) SetToBag({[winner |-> w, loser |-> l]})
    /\ UNCHANGED <<player, player_id_seq>>

\* ------------------------------------------------ operations of the caller
DeleteMatches ==
    /\ pc = "idle"
    /\ TruncateMatch
    /\ call' = Returned("deleteMatches", "None")
    /\ UNCHANGED <<pc, standings>>

DeletePlayers ==
    /\ pc = "idle"
    /\ TruncatePlayer
    /\ call' = Returned("deletePlayers", "None")
    /\ UNCHANGED <<pc, standings>>

CountPlayers ==
    /\ pc = "idle"
    /\ call' = [Returned("countPlayers", "int") EXCEPT !.int = CountResult(player)]
    /\ UNCHANGED <<player, match, player_id_seq, pc, standings>>

\* registerPlayer(name), for a caller that registers at most cap players
RegisterPlayerUpTo(cap) ==
    /\ pc = "idle"
    /\ Cardinality(player) < cap
    /\ \E name \in Names :
          /\ InsertPlayer(name)
          /\ call' = [Returned("registerPlayer", "None") EXCEPT !.name = name]
    /\ UNCHANGED <<pc, standings>>

RegisterPlayer == RegisterPlayerUpTo(MaxPlayers)

PlayerStandings ==
    /\ pc = "idle"
    /\ \E s \in PlayerStandingsResults(player, match) :
          call' = [Returned("playerStandings", "rows") EXCEPT !.rows = s]
    /\ UNCHANGED <<player, match, player_id_seq, pc, standings>>

\* reportMatch(winner, loser), for a caller that passes ids of the set ids
\* and records at most cap matches
ReportMatchUpTo(ids, cap) ==
    /\ pc = "idle"
    /\ \E w \in ids, l \in ids :
          IF ForeignKeyOk(w, l, player)
          THEN /\ BagCardinality(match) < cap
               /\ InsertMatch(w, l)
               /\ call' = [Returned("reportMatch", "None")
                              EXCEPT !.winner = w, !.loser = l]
          ELSE /\ call' = [Returned("reportMatch", "IntegrityError")
                              EXCEPT !.winner = w, !.loser = l]
               /\ UNCHANGED <<player, match, player_id_seq>>
    /\ UNCHANGED <<pc, standings>>

ReportMatch == ReportMatchUpTo(Ids, MaxMatches)

SwissPairings ==
    /\ pc = "idle"
    /\ \E s \in PlayerStandingsResults(player, match) :
          call' = [Returned("swissPairings", "pairs") EXCEPT !.pairs = PairUp(s)]
    /\ UNCHANGED <<player, match, player_id_seq, pc, standings>>

Init ==
    /\ player = {}
    /\ match = EmptyBag
    /\ player_id_seq = FirstId
    /\ call = NoCall
    /\ pc = "idle"
    /\ standings = <<>>

Next ==
    \/ DeleteMatches
    \/ DeletePlayers
    \/ CountPlayers
    \/ RegisterPlayer
    \/ PlayerStandings
    \/ ReportMatch
    \/ SwissPairings

Spec == Init /\ [][Next]_vars

\* ------------------------------- swissPairings raced by a second caller
\* standings = playerStandings()
SwissQuery ==
    /\ pc = "idle"
    /\ \E s \in PlayerStandingsResults(player, match) : standings' = s
    /\ pc' = "queried"
    /\ UNCHANGED <<player, match, player_id_seq, call>>

SwissReturnRequery ==
    /\ pc = "queried"
    /\ \E s \in PlayerStandingsResults(player, match) :
          call' = [Returned("swissPairings", "pairs") EXCEPT !.pairs = PairUp(s)]
    /\ pc' = "idle"
    /\ standings' = <<>>
    /\ UNCHANGED <<player, match, player_id_seq>>

\* the loop over the local list and "return matches"
SwissReturn ==
    /\ pc = "queried"
    /\ call' = [Returned("swissPairings", "pairs") EXCEPT !.pairs = PairUp(standings)]
    /\ pc' = "idle"
    /\ standings' = <<>>
    /\ UNCHANGED <<player, match, player_id_seq>>

\* the calls a second caller makes while the first one is inside
\* swissPairings; what they return goes to the second caller
OtherRegisterPlayer ==
    /\ pc = "queried"
    /\ Cardinality(player) < ConcMaxPlayers
    /\ \E name \in Names : InsertPlayer(name)
    /\ UNCHANGED <<call, pc, standings>>

OtherReportMatch ==
    /\ pc = "queried"
    /\ BagCardinality(match) < ConcMaxMatches
    /\ \E w \in ConcIds, l \in ConcIds :
          /\ ForeignKeyOk(w, l, player)
          /\ InsertMatch(w, l)
    /\ UNCHANGED <<call, pc, standings>>

OtherDeleteMatches ==
    /\ pc = "queried"
    /\ TruncateMatch
    /\ UNCHANGED <<call, pc, standings>>

OtherDeletePlayers ==
    /\ pc = "queried"
    /\ TruncatePlayer
    /\ UNCHANGED <<call, pc, standings>>

\* the first caller's calls before and after swissPairings
ConcRegisterPlayer == RegisterPlayerUpTo(ConcMaxPlayers)

ConcReportMatch == ReportMatchUpTo(ConcIds, ConcMaxMatches)

NextConc ==
    \/ DeleteMatches
    \/ DeletePlayers
    \/ ConcRegisterPlayer
    \/ ConcReportMatch
    \/ SwissQuery
    \/ SwissReturn
    \/ OtherRegisterPlayer
    \/ OtherReportMatch
    \/ OtherDeleteMatches
    \/ OtherDeletePlayers

SpecConc == Init /\ [][NextConc]_vars

\* ===================================================== properties checked
\* the rows of the ledger one by one: a row and its copy number
LedgerRows(M) == UNION {{<<m, i>> : i \in 1..M[m]} : m \in DOMAIN M}

\* number of match rows whose winner is p
WonBy(p, M) == Cardinality({x \in LedgerRows(M) : x[1].winner = p})

\* number of match rows whose winner is p or whose loser is p
PlayedBy(p, M) ==
    Cardinality({x \in LedgerRows(M) : x[1].winner = p \/ x[1].loser = p})

\* the tuple made of the entries at ranks 2k-1 and 2k of list s
RankPair(s, k) == <<s[2 * k - 1][1], s[2 * k - 1][2], s[2 * k][1], s[2 * k][2]>>

\* how many times id appears in the pairs, in either seat
Seats(id, pairs) ==
    Cardinality({x \in (1..Len(pairs)) \X {1, 3} : pairs[x[1]][x[2]] = id})

\* C1: playerStandings returns exactly one entry per registered player and
\* no other entry; the entry of p carries p's name, wins = number of match
\* rows won by p, matches = number of match rows with p as winner or loser
\* (a row p-p counted once); a player without match rows has 0 and 0.
C1_StandingsCounts ==
    call.op = "playerStandings" =>
        /\ call.outcome = "rows"
        /\ Len(call.rows) = Cardinality(player)
        /\ \A r \in player :
              Cardinality({i \in 1..Len(call.rows) : call.rows[i][1] = r.id}) = 1
        /\ \A i \in 1..Len(call.rows) :
              \E r \in player :
                 /\ call.rows[i][1] = r.id
                 /\ call.rows[i][2] = r.name
                 /\ call.rows[i][3] = WonBy(r.id, match)
                 /\ call.rows[i][4] = PlayedBy(r.id, match)
                 /\ (\A m \in DOMAIN match : m.winner # r.id /\ m.loser # r.id)
                       => call.rows[i][3] = 0 /\ call.rows[i][4] = 0

C1_Witness ==
    /\ call.op = "playerStandings"
    /\ \E i, j \in 1..Len(call.rows) :
          /\ [winner |-> call.rows[i][1], loser |-> call.rows[i][1]] \in DOMAIN match
          /\ call.rows[i][4] = 2
          /\ call.rows[j][4] = 0

\* C2: the list returned by playerStandings is ordered by wins descending;
\* the order of players with equal wins is left open.
C2_WinsDescending ==
    call.op = "playerStandings" =>
        \A i, j \in 1..Len(call.rows) :
            i < j => call.rows[i][3] >= call.rows[j][3]

C2_Witness ==
    /\ call.op = "playerStandings"
    /\ \E i, j, k \in 1..Len(call.rows) :
          /\ i < j /\ j < k
          /\ call.rows[i][3] > call.rows[j][3]
          /\ call.rows[j][3] = call.rows[k][3]
          /\ call.rows[j][1] > call.rows[k][1]

\* what playerStandings shows for player p on store (P, M)
ShownWins(p, P, M) == {row[3] : row \in {x \in StandingRows(P, M) : x[1] = p}}
ShownMatches(p, P, M) == {row[4] : row \in {x \in StandingRows(P, M) : x[1] = p}}

\* a step in which the caller's reportMatch(w, l) completed
ReportStep(w, l) ==
    /\ call'.op = "reportMatch"
    /\ call'.winner = w
    /\ call'.loser = l

\* the effect of reportMatch(w, l) on everybody but w and l, and on w
ReportEffectOnWinnerAndOthers(w, l) ==
    /\ call'.outcome = "None"
    /\ player' = player
    /\ ShownWins(w, player', match') = {WonBy(w, match) + 1}
    /\ ShownMatches(w, player', match') = {PlayedBy(w, match) + 1}
    /\ \A q \in PlayerIds(player) \ {w, l} :
          /\ ShownWins(q, player', match') = {WonBy(q, match)}
          /\ ShownMatches(q, player', match') = {PlayedBy(q, match)}

\* C3 as stated: for all registered w and l, w = l included, reportMatch(w, l)
\* succeeds, w gains one win and one match, l gains one match and keeps its
\* wins, nobody else changes and the players are the same.
C3_Original ==
    [][\A w, l \in PlayerIds(player) :
          ReportStep(w, l) =>
             /\ ReportEffectOnWinnerAndOthers(w, l)
             /\ ShownMatches(l, player', match') = {PlayedBy(l, match) + 1}
             /\ ShownWins(l, player', match') = {WonBy(l, match)}]_vars

\* C3 amended: as C3, except that the loser keeps its wins only when it is
\* not the winner; reportMatch(p, p) gives p one win and one match.
C3_ReportMatchEffect ==
    [][\A w, l \in PlayerIds(player) :
          ReportStep(w, l) =>
             /\ ReportEffectOnWinnerAndOthers(w, l)
             /\ ShownMatches(l, player', match') = {PlayedBy(l, match) + 1}
             /\ l # w => ShownWins(l, player', match') = {WonBy(l, match)}]_vars

C3_Witness ==
    /\ call.op = "reportMatch"
    /\ call.outcome = "None"
    /\ call.winner = call.loser
    /\ CopiesIn([winner |-> call.winner, loser |-> call.loser], match) = 2
    /\ Cardinality(player) >= 3

\* C4: with an even number N of players swissPairings returns N/2 tuples, the
\* k-th built from the standings entries at ranks 2k-1 and 2k in that order;
\* every registered id sits in exactly one tuple, once, never against itself,
\* whatever matches were recorded.
C4_EvenPairing ==
    (call.op = "swissPairings" /\ Cardinality(player) % 2 = 0) =>
        /\ call.outcome = "pairs"
        /\ Len(call.pairs) = Cardinality(player) \div 2
        /\ \E s \in PlayerStandingsResults(player, match) :
              \A k \in 1..Len(call.pairs) : call.pairs[k] = RankPair(s, k)
        /\ \A id \in PlayerIds(player) : Seats(id, call.pairs) = 1
        /\ \A k \in 1..Len(call.pairs) : call.pairs[k][1] # call.pairs[k][3]

C4_Witness ==
    /\ call.op = "swissPairings"
    /\ Cardinality(player) = 4
    /\ Len(call.pairs) = 2
    /\ [winner |-> call.pairs[1][1], loser |-> call.pairs[1][3]] \in DOMAIN match

\* C5 as stated: swissPairings called with an odd number of players ends in
\* an error for the caller, not in a list of pairs.
C5_Original ==
    (call.op = "swissPairings" /\ Cardinality(player) % 2 = 1) =>
        call.outcome # "pairs"

\* C5 amended: with an odd number N of players swissPairings raises nothing
\* and returns (N-1)/2 tuples built from ranks 2k-1 and 2k; the entry ranked
\* last is in no tuple, and no tuple is a bye (each seats two distinct
\* registered players).
C5_OddPairing ==
    (call.op = "swissPairings" /\ Cardinality(player) % 2 = 1) =>
        /\ call.outcome = "pairs"
        /\ Len(call.pairs) = (Cardinality(player) - 1) \div 2
        /\ \E s \in PlayerStandingsResults(player, match) :
              /\ \A k \in 1..Len(call.pairs) : call.pairs[k] = RankPair(s, k)
              /\ Seats(s[Len(s)][1], call.pairs) = 0
        /\ \A k \in 1..Len(call.pairs) :
              /\ call.pairs[k][1] # call.pairs[k][3]
              /\ {call.pairs[k][1], call.pairs[k][3]} \subseteq PlayerIds(player)

C5_Witness ==
    /\ call.op = "swissPairings"
    /\ call.outcome = "pairs"
    /\ Cardinality(player) = 3
    /\ Len(call.pairs) = 1

\* every match row names two registered players
LedgerRefersToPlayers ==
    \A m \in DOMAIN match :
        m.winner \in PlayerIds(player) /\ m.loser \in PlayerIds(player)

\* C6: every match row's winner and loser are registered players in every
\* reachable state; reportMatch with an unregistered id ends in a storage
\* error and changes neither table; deletePlayers leaves no match behind
\* that names a removed player.
C6_ReferentialIntegrity ==
    /\ [](LedgerRefersToPlayers)
    /\ []((call.op = "reportMatch"
             /\ ~(call.winner \in PlayerIds(player) /\ call.loser \in PlayerIds(player)))
          => call.outcome = "IntegrityError")
    /\ [][(call'.op = "reportMatch" /\ call'.outcome = "IntegrityError")
             => (player' = player /\ match' = match)]_vars

C6_Witness ==
    /\ call.op = "reportMatch"
    /\ call.outcome = "IntegrityError"
    /\ call.winner \in PlayerIds(player)
    /\ call.loser \notin PlayerIds(player)
    /\ BagCardinality(match) = 2

\* C7: after deletePlayers countPlayers is 0, playerStandings is the empty
\* list, the ledger is empty, and the next player registered gets the first
\* id of a fresh store.
C7_DeletePlayers ==
    /\ [](call.op = "deletePlayers" =>
            /\ CountResult(player) = 0
            /\ PlayerStandingsResults(player, match) = {<<>>}
            /\ match = EmptyBag)
    /\ [][(call.op = "deletePlayers" /\ call'.op = "registerPlayer")
             => PlayerIds(player') = {FirstId}]_vars

C7_Witness ==
    /\ call.op = "deletePlayers"
    /\ player = {}
    /\ match = EmptyBag
    /\ player_id_seq = FirstId

\* C8: deleteMatches removes every match row and leaves the registry as it
\* was: same count, same ids and names, and every player then stands at
\* wins = 0 and matches = 0.
C8_DeleteMatches ==
    /\ [](call.op = "deleteMatches" =>
            /\ match = EmptyBag
            /\ \A s \in PlayerStandingsResults(player, match) :
                  /\ Len(s) = Cardinality(player)
                  /\ \A i \in 1..Len(s) : s[i][3] = 0 /\ s[i][4] = 0)
    /\ [][call'.op = "deleteMatches" =>
             /\ player' = player
             /\ CountResult(player') = CountResult(player)]_vars

C8_Witness ==
    /\ call.op = "deleteMatches"
    /\ Cardinality(player) >= 2
    /\ match = EmptyBag

\* the insertion made by a registerPlayer(name) step, everything but the
\* value handed back
RegisterInserts ==
    /\ \E id \in PlayerIds(player') \ PlayerIds(player) :
          player' = player \cup {[id |-> id, name |-> call'.name]}
    /\ call'.name \in Names
    /\ match' = match
    /\ CountResult(player') = CountResult(player) + 1

\* C9 as stated: registerPlayer inserts one player under a fresh id, accepts
\* a registered name, changes nothing else, and returns the new id.
C9_Original ==
    [][call'.op = "registerPlayer" =>
          /\ RegisterInserts
          /\ call'.outcome = "int"
          /\ call'.int \in PlayerIds(player') \ PlayerIds(player)]_vars

\* C9 amended: as C9, except that the call returns nothing (None); the new
\* id is only to be read from playerStandings.
C9_RegisterPlayer ==
    [][call'.op = "registerPlayer" =>
          /\ RegisterInserts
          /\ call'.outcome = "None"]_vars

C9_Witness ==
    /\ call.op = "registerPlayer"
    /\ call.outcome = "None"
    /\ \E r, q \in player :
          /\ r.id = player_id_seq - 1
          /\ q.id # r.id
          /\ q.name = r.name
          /\ r.name = call.name

\* C10: nothing stops a second caller between the query and the return of
\* swissPairings; the pairs returned are those of the list read by the
\* query, so an interleaving exists in which they are not a consecutive-rank
\* pairing of the store's standings at the moment of the return.
C10_PairsFromSnapshot ==
    [][(pc = "queried" /\ pc' = "idle") =>
          /\ call'.op = "swissPairings"
          /\ Len(call'.pairs) = Len(standings) \div 2
          /\ \A k \in 1..Len(call'.pairs) : call'.pairs[k] = RankPair(standings, k)]_vars

C10_Witness ==
    /\ pc = "idle"
    /\ call.op = "swissPairings"
    /\ Len(call.pairs) = 1
    /\ Cardinality(player) = 2
    /\ \A s \in PlayerStandingsResults(player, match) :
          call.pairs # <<RankPair(s, 1)>>

====
